---- MODULE Spec2Model ----
(***************************************************************************)
(* A model of the speed client library (PCP MMV):                          *)
(*   - mmvdump: Dump and the readers it is built from, with the goroutines *)
(*     that readComponents and the section readers start;                  *)
(*   - speed: PCPMetric with its RWMutex, Set and Val; the MetricType      *)
(*     compatibility check; mmvdump's FixedVal;                            *)
(*   - bytewriter: MemoryMappedWriter, its file and its mapping.           *)
(***************************************************************************)
EXTENDS Integers, Sequences, FiniteSets, TLC

VARIABLES
    data,    \* Dump: the input buffer (its length and the fields the readers look at)
    dpc,     \* Dump: position of the calling goroutine
    tocs,    \* Dump: the slice readTocs returned
    wgc,     \* readComponents: counter of its WaitGroup
    sec,     \* per TOC entry: the goroutine of readComponents and its section reader
    shared,  \* readComponents: its named results, written by the section goroutines
    result,  \* Dump: the returned tuple
    metric,  \* PCPMetric: "none" before NewPCPMetric, then "ok" or its error
    mtype,   \* PCPMetric: desc.t
    mval,    \* PCPMetric: val
    mhist,   \* PCPMetric: every value val has held, the initial one first
    mwriter, \* RWMutex: the goroutine holding the write lock, or 0
    mreaders,\* RWMutex: the goroutines holding the read lock
    mpc,     \* per goroutine: its position in Set or Val
    marg,    \* per goroutine: the argument of its Set
    mgot,    \* per goroutine: the value its Val read
    mseen,   \* per goroutine: the last store to val that happens before its next step
    ops,     \* the calls of Set and Val made so far: goroutine, kind, argument, st
             \* ("pending", "ok", or "err" for a returned error), the value a Val
             \* returned, and the calls that had returned when this one was made
    fcall,   \* a call of IsCompatible or FixedVal: the function and its arguments
    fres,    \* what that call returned, Nil before it returns
    file,    \* the file at the writer's location: Nil, or its bytes
    wpc,     \* NewMemoryMappedWriter / Unmap: position of the caller
    writer,  \* the MemoryMappedWriter: its location's file handle, mapping and size
    wsize,   \* the size passed to NewMemoryMappedWriter
    wret     \* what NewMemoryMappedWriter and Unmap returned

dumpVars == <<data, dpc, tocs, wgc, sec, shared, result>>

metricVars == <<metric, mtype, mval, mhist, mwriter, mreaders, mpc, marg, mgot, mseen, ops>>

funcVars == <<fcall, fres>>

writerVars == <<file, wpc, writer, wsize, wret>>

vars == <<data, dpc, tocs, wgc, sec, shared, result,
          metric, mtype, mval, mhist, mwriter, mreaders, mpc, marg, mgot, mseen, ops,
          fcall, fres, file, wpc, writer, wsize, wret>>

------------------------------------------------------------------------------
(* Bounds of the model *)

\* number of TOC entries the input buffers hold
MaxTocs == 2
\* largest record count of a TOC entry
MaxCount == 2
\* goroutines calling Set and Val on one metric
NThreads == 2
\* calls each of them makes
MaxOps == 2
\* records a well-formed buffer holds in all
MaxRecords == 2
\* how far from a bound of an integer type the values tried lie
MaxDelta == 1
\* largest size of a memory-mapped file
MaxSize == 2
\* calls of Unmap on one writer
MaxUnmaps == 2
\* calls of Set and Val made in all, where they are limited
MaxCalls == 2

------------------------------------------------------------------------------
(* The MMV v1 record lengths and TOC type codes *)

HeaderLength == 40
TocLength == 16
InstanceDomainLength == 32
InstanceLength == 80
MetricLength == 104
ValueLength == 16
StringLength == 256

TocIndoms == 1
TocInstances == 2
TocMetrics == 3
TocValues == 4
TocStrings == 5

\* the format version a writer of this library emits
SupportedVersion == 1

KnownTypes == {TocIndoms, TocInstances, TocMetrics, TocValues, TocStrings}

\* the record length of a section, by TOC type
Stride(t) ==
    CASE t = TocIndoms -> InstanceDomainLength
      [] t = TocInstances -> InstanceLength
      [] t = TocMetrics -> MetricLength
      [] t = TocValues -> ValueLength
      [] t = TocStrings -> StringLength
      [] OTHER -> 0

------------------------------------------------------------------------------
(* uint64 arithmetic.  A uint64 u is written as the integer int64(u), its    *)
(* two's-complement reading: 0, 1, 2, ... are themselves and -k is 2^64 - k. *)
(* The model only holds values of magnitude below 2^30, where the sum mod    *)
(* 2^64 of two such values is their integer sum, and the unsigned order puts *)
(* every negative-coded value above every other.                             *)

Add64(a, b) == a + b

Lt64(a, b) == IF (a < 0) = (b < 0) THEN a < b ELSE a >= 0

------------------------------------------------------------------------------
(* nil and errors *)

Nil == <<>>
Some(x) == <<x>>
NoErr == "nil"

ErrTooSmall == "file too small to contain a valid Header"
ErrBadMagic == "Bad Magic"
ErrMismatch == "Mismatched version numbers"
ErrToc == "Incomplete/Partially Written TOC"

RecordErr(t) ==
    CASE t = TocIndoms -> "Incomplete/Partially Written InstanceDomain"
      [] t = TocInstances -> "Incomplete/Partially Written Instance"
      [] t = TocMetrics -> "Incomplete/Partially Written Metric"
      [] t = TocValues -> "Incomplete/Partially Written Value"
      [] t = TocStrings -> "Incomplete/Partially Written String"
      [] OTHER -> "?"

------------------------------------------------------------------------------
(* The readers *)

\* the TOC entry the buffer holds at HeaderLength + i*TocLength (i from 0)
TocAt(d, i) == d.tocs[i + 1]

readHeaderNoGen(d) ==
    IF d.len < HeaderLength THEN [h |-> Nil, err |-> ErrTooSmall]
    ELSE IF d.magic # "MMV" THEN [h |-> Nil, err |-> ErrBadMagic]
    ELSE [h |-> Some([version |-> d.version, g1 |-> d.g1, g2 |-> d.g2, toc |-> d.toc]),
          err |-> NoErr]

readHeader(d) ==
    IF d.len < HeaderLength THEN [h |-> Nil, err |-> ErrTooSmall]
    ELSE IF d.magic # "MMV" THEN [h |-> Nil, err |-> ErrBadMagic]
    ELSE IF d.g1 # d.g2 THEN [h |-> Nil, err |-> ErrMismatch]
    ELSE [h |-> Some([version |-> d.version, g1 |-> d.g1, g2 |-> d.g2, toc |-> d.toc]),
          err |-> NoErr]

\* ptr is the index of the entry the returned pointer points at
readToc(d, offset) ==
    IF Lt64(d.len, Add64(offset, TocLength))
    THEN [st |-> "err", ptr |-> 0, err |-> ErrToc]
    ELSE [st |-> "ok", ptr |-> (offset - HeaderLength) \div TocLength, err |-> NoErr]

readRecordNoCheck(d, t, offset) ==
    IF ~Lt64(offset, d.len)
    THEN [st |-> "panic", ptr |-> 0, err |-> NoErr]
    ELSE [st |-> "ok", ptr |-> offset, err |-> NoErr]

\* readInstance, readInstanceDomain, readMetric, readValue, readString: the
\* length check, then &data[offset], which panics when offset is no index
readRecord(d, t, offset) ==
    IF Lt64(d.len, Add64(offset, Stride(t)))
    THEN [st |-> "err", ptr |-> 0, err |-> RecordErr(t)]
    ELSE IF ~Lt64(offset, d.len)
    THEN [st |-> "panic", ptr |-> 0, err |-> NoErr]
    ELSE [st |-> "ok", ptr |-> offset, err |-> NoErr]

RECURSIVE readTocsFrom(_, _, _, _)
readTocsFrom(d, count, i, acc) ==
    IF i >= count THEN [st |-> "ok", tocs |-> Some(acc), err |-> NoErr]
    ELSE LET t == readToc(d, HeaderLength + i * TocLength) IN
         IF t.err # NoErr THEN [st |-> "err", tocs |-> Nil, err |-> t.err]
         ELSE readTocsFrom(d, count, i + 1, Append(acc, TocAt(d, t.ptr)))

\* make([]*Toc, count) panics on a negative count
readTocs(d, count) ==
    IF count < 0 THEN [st |-> "panic", tocs |-> Nil, err |-> NoErr]
    ELSE readTocsFrom(d, count, 0, <<>>)

\* the offset the j-th record goroutine of a section captures (j from 1)
RECURSIVE RecOffset(_, _, _)
RecOffset(offset, t, j) ==
    IF j <= 1 THEN offset ELSE Add64(RecOffset(offset, t, j - 1), Stride(t))

\* m[k] = v on a map held as a set of <<key, value>> pairs
MapPut(m, k, v) == {p \in m : p[1] # k} \cup {<<k, v>>}

------------------------------------------------------------------------------
(* Dump and its goroutines *)

NilResult(e) ==
    [h |-> Nil, tocs |-> Nil, metrics |-> Nil, values |-> Nil, instances |-> Nil,
     indoms |-> Nil, strings |-> Nil, err |-> e]

NoResult == NilResult("none")

SharedInit == [maps |-> [t \in KnownTypes |-> Nil], errs |-> [t \in KnownTypes |-> NoErr]]

\* a section goroutine and its reader: pc, the reader's WaitGroup counter, map,
\* err and mutex (0 free, else the record goroutine holding it), the record
\* goroutines' positions, and the reader's returned pair
SecIdle ==
    [pc |-> "none", wg |-> 0, m |-> {}, err |-> NoErr, mtx |-> 0,
     rec |-> [j \in 1..MaxCount |-> "none"], retm |-> Nil, rete |-> NoErr]

\* Dump up to the go statements of readComponents: readHeader, readTocs,
\* wg.Add(len(tocs)) and one goroutine per TOC entry of a known type
DumpStart ==
    /\ dpc = "init"
    /\ LET rh == readHeader(data) IN
       IF rh.err # NoErr
       THEN /\ dpc' = "done"
            /\ result' = NilResult(rh.err)
            /\ UNCHANGED <<tocs, wgc, sec>>
       ELSE LET rt == readTocs(data, rh.h[1].toc) IN
            IF rt.st = "panic"
            THEN /\ dpc' = "panic"
                 /\ UNCHANGED <<tocs, wgc, sec, result>>
            ELSE IF rt.err # NoErr
            THEN /\ dpc' = "done"
                 /\ result' = NilResult(rt.err)
                 /\ UNCHANGED <<tocs, wgc, sec>>
            ELSE /\ dpc' = "wait"
                 /\ tocs' = rt.tocs
                 /\ wgc' = Len(rt.tocs[1])
                 /\ sec' = [i \in 1..MaxTocs |->
                              IF i <= Len(rt.tocs[1]) /\ rt.tocs[1][i].type \in KnownTypes
                              THEN [SecIdle EXCEPT !.pc = "start"]
                              ELSE SecIdle]
                 /\ UNCHANGED result
    /\ UNCHANGED <<data, shared, metricVars, funcVars, writerVars>>

Toc(i) == tocs[1][i]

\* the section reader's start: wg.Add(int(count)), which panics on a negative
\* count, make(map), and one goroutine per record
SecStart(i) ==
    /\ dpc = "wait"
    /\ sec[i].pc = "start"
    /\ IF Toc(i).count < 0
       THEN /\ dpc' = "panic"
            /\ UNCHANGED sec
       ELSE /\ sec' = [sec EXCEPT ![i].pc = "wait",
                                  ![i].wg = Toc(i).count,
                                  ![i].rec = [j \in 1..MaxCount |->
                                                IF j <= Toc(i).count THEN "chk" ELSE "none"]]
            /\ UNCHANGED dpc
    /\ UNCHANGED <<data, tocs, wgc, shared, result, metricVars, funcVars, writerVars>>

\* the values the unsynchronised read of err may return: the variable's value,
\* or nil, the value it held before any unsynchronised write
ErrSeen(i) == {sec[i].err, NoErr}

\* a record goroutine: if err == nil { x, xerr := readX(data, offset) ...
RecCheck(i, j) ==
    /\ dpc = "wait"
    /\ sec[i].rec[j] = "chk"
    /\ \E e \in ErrSeen(i) :
         IF e # NoErr
         THEN /\ sec' = [sec EXCEPT ![i].rec[j] = "done"]
              /\ UNCHANGED dpc
         ELSE LET r == readRecord(data, Toc(i).type, RecOffset(Toc(i).offset, Toc(i).type, j)) IN
              IF r.st = "panic"
              THEN /\ dpc' = "panic"
                   /\ UNCHANGED sec
              ELSE /\ sec' = [sec EXCEPT ![i].rec[j] = IF r.st = "ok" THEN "lock" ELSE "seterr"]
                   /\ UNCHANGED dpc
    /\ UNCHANGED <<data, tocs, wgc, shared, result, metricVars, funcVars, writerVars>>

\* m.Lock()
RecLock(i, j) ==
    /\ dpc = "wait"
    /\ sec[i].rec[j] = "lock"
    /\ sec[i].mtx = 0
    /\ sec' = [sec EXCEPT ![i].mtx = j, ![i].rec[j] = "ins"]
    /\ UNCHANGED <<data, dpc, tocs, wgc, shared, result, metricVars, funcVars, writerVars>>

\* xs[offset] = x; m.Unlock()
RecInsert(i, j) ==
    /\ dpc = "wait"
    /\ sec[i].rec[j] = "ins"
    /\ LET off == RecOffset(Toc(i).offset, Toc(i).type, j) IN
       sec' = [sec EXCEPT ![i].m = MapPut(@, off, readRecord(data, Toc(i).type, off).ptr),
                          ![i].mtx = 0,
                          ![i].rec[j] = "done"]
    /\ UNCHANGED <<data, dpc, tocs, wgc, shared, result, metricVars, funcVars, writerVars>>

\* err = xerr
RecSetErr(i, j) ==
    /\ dpc = "wait"
    /\ sec[i].rec[j] = "seterr"
    /\ sec' = [sec EXCEPT ![i].err = RecordErr(Toc(i).type), ![i].rec[j] = "done"]
    /\ UNCHANGED <<data, dpc, tocs, wgc, shared, result, metricVars, funcVars, writerVars>>

\* wg.Done() of a record goroutine
RecDone(i, j) ==
    /\ dpc = "wait"
    /\ sec[i].rec[j] = "done"
    /\ sec' = [sec EXCEPT ![i].wg = @ - 1, ![i].rec[j] = "end"]
    /\ UNCHANGED <<data, dpc, tocs, wgc, shared, result, metricVars, funcVars, writerVars>>

\* wg.Wait() returns; the reader returns (nil, err) or (map, nil)
SecReturn(i) ==
    /\ dpc = "wait"
    /\ sec[i].pc = "wait"
    /\ sec[i].wg = 0
    /\ sec' = [sec EXCEPT ![i].pc = "stmap",
                          ![i].retm = IF sec[i].err # NoErr THEN Nil ELSE Some(sec[i].m),
                          ![i].rete = sec[i].err]
    /\ UNCHANGED <<data, dpc, tocs, wgc, shared, result, metricVars, funcVars, writerVars>>

SecStoreMapByPosition(i) ==
    /\ dpc = "wait"
    /\ sec[i].pc = "stmap"
    /\ shared' = [shared EXCEPT !.maps[i] = sec[i].retm]
    /\ sec' = [sec EXCEPT ![i].pc = "sterr"]
    /\ UNCHANGED <<data, dpc, tocs, wgc, result, metricVars, funcVars, writerVars>>

\* xs, xerr = readXs(...): the store of the map
SecStoreMap(i) ==
    /\ dpc = "wait"
    /\ sec[i].pc = "stmap"
    /\ shared' = [shared EXCEPT !.maps[Toc(i).type] = sec[i].retm]
    /\ sec' = [sec EXCEPT ![i].pc = "sterr"]
    /\ UNCHANGED <<data, dpc, tocs, wgc, result, metricVars, funcVars, writerVars>>

\* xs, xerr = readXs(...): the store of the error
SecStoreErr(i) ==
    /\ dpc = "wait"
    /\ sec[i].pc = "sterr"
    /\ shared' = [shared EXCEPT !.errs[Toc(i).type] = sec[i].rete]
    /\ sec' = [sec EXCEPT ![i].pc = "done"]
    /\ UNCHANGED <<data, dpc, tocs, wgc, result, metricVars, funcVars, writerVars>>

\* wg.Done() of a section goroutine
SecDone(i) ==
    /\ dpc = "wait"
    /\ sec[i].pc = "done"
    /\ wgc' = wgc - 1
    /\ sec' = [sec EXCEPT ![i].pc = "end"]
    /\ UNCHANGED <<data, dpc, tocs, shared, result, metricVars, funcVars, writerVars>>

\* the switch of Dump over ierr, inerr, merr, verr, serr
FirstErr(sh) ==
    CASE sh.errs[TocInstances] # NoErr -> sh.errs[TocInstances]
      [] sh.errs[TocIndoms] # NoErr -> sh.errs[TocIndoms]
      [] sh.errs[TocMetrics] # NoErr -> sh.errs[TocMetrics]
      [] sh.errs[TocValues] # NoErr -> sh.errs[TocValues]
      [] sh.errs[TocStrings] # NoErr -> sh.errs[TocStrings]
      [] OTHER -> NoErr

DumpResult(h, ts, sh) ==
    IF FirstErr(sh) # NoErr THEN NilResult(FirstErr(sh))
    ELSE [h |-> h, tocs |-> ts,
          metrics |-> sh.maps[TocMetrics], values |-> sh.maps[TocValues],
          instances |-> sh.maps[TocInstances], indoms |-> sh.maps[TocIndoms],
          strings |-> sh.maps[TocStrings], err |-> NoErr]

\* wg.Wait() of readComponents returns, and Dump returns
DumpReturn ==
    /\ dpc = "wait"
    /\ wgc = 0
    /\ dpc' = "done"
    /\ result' = DumpResult(readHeader(data).h, tocs, shared)
    /\ UNCHANGED <<data, tocs, wgc, sec, shared, metricVars, funcVars, writerVars>>

DumpNext ==
    \/ DumpStart
    \/ \E i \in 1..MaxTocs : SecStart(i)
    \/ \E i \in 1..MaxTocs, j \in 1..MaxCount : RecCheck(i, j)
    \/ \E i \in 1..MaxTocs, j \in 1..MaxCount : RecLock(i, j)
    \/ \E i \in 1..MaxTocs, j \in 1..MaxCount : RecInsert(i, j)
    \/ \E i \in 1..MaxTocs, j \in 1..MaxCount : RecSetErr(i, j)
    \/ \E i \in 1..MaxTocs, j \in 1..MaxCount : RecDone(i, j)
    \/ \E i \in 1..MaxTocs : SecReturn(i)
    \/ \E i \in 1..MaxTocs : SecStoreMap(i)
    \/ \E i \in 1..MaxTocs : SecStoreErr(i)
    \/ \E i \in 1..MaxTocs : SecDone(i)
    \/ DumpReturn

DumpInitRest ==
    /\ dpc = "init"
    /\ tocs = Nil
    /\ wgc = 0
    /\ sec = [i \in 1..MaxTocs |-> SecIdle]
    /\ shared = SharedInit
    /\ result = NoResult

------------------------------------------------------------------------------
(* Dump run with every goroutine body executed where it is started: the      *)
(* sequential decode of the TOC entries, one after another                   *)

RECURSIVE SeqRecords(_, _, _, _, _, _)
SeqRecords(d, t, offset, count, j, acc) ==
    IF j > count THEN acc
    ELSE IF acc.err # NoErr THEN SeqRecords(d, t, offset, count, j + 1, acc)
    ELSE LET off == RecOffset(offset, t, j)
             r == readRecord(d, t, off) IN
         IF r.st = "panic" THEN [acc EXCEPT !.st = "panic"]
         ELSE IF r.st = "err"
         THEN SeqRecords(d, t, offset, count, j + 1, [acc EXCEPT !.err = r.err])
         ELSE SeqRecords(d, t, offset, count, j + 1, [acc EXCEPT !.m = MapPut(@, off, r.ptr)])

SeqSection(d, e) ==
    IF e.count < 0 THEN [st |-> "panic", m |-> {}, err |-> NoErr]
    ELSE SeqRecords(d, e.type, e.offset, e.count, 1, [st |-> "ok", m |-> {}, err |-> NoErr])

RECURSIVE SeqComponents(_, _, _, _)
SeqComponents(d, ts, i, acc) ==
    IF i > Len(ts) THEN acc
    ELSE IF ts[i].type \notin KnownTypes
    THEN SeqComponents(d, ts, i + 1, [acc EXCEPT !.st = "hang"])
    ELSE LET r == SeqSection(d, ts[i]) IN
         IF r.st = "panic" THEN [acc EXCEPT !.st = "panic"]
         ELSE SeqComponents(d, ts, i + 1,
                [acc EXCEPT !.sh.maps[ts[i].type] = IF r.err # NoErr THEN Nil ELSE Some(r.m),
                            !.sh.errs[ts[i].type] = r.err])

SeqDump(d) ==
    LET rh == readHeader(d) IN
    IF rh.err # NoErr THEN [st |-> "done", res |-> NilResult(rh.err)]
    ELSE LET rt == readTocs(d, rh.h[1].toc) IN
         IF rt.st = "panic" THEN [st |-> "panic", res |-> NoResult]
         ELSE IF rt.err # NoErr THEN [st |-> "done", res |-> NilResult(rt.err)]
         ELSE LET c == SeqComponents(d, rt.tocs[1], 1, [st |-> "done", sh |-> SharedInit]) IN
              IF c.st # "done" THEN [st |-> c.st, res |-> NoResult]
              ELSE [st |-> "done", res |-> DumpResult(rh.h, rt.tocs, c.sh)]

------------------------------------------------------------------------------
(* speed: MetricType, PCPMetric *)

NoSupportType == -1
Int32Type == 0
Uint32Type == 1
Int64Type == 2
Uint64Type == 3
FloatType == 4
DoubleType == 5
StringType == 6

\* Integers of 64 bits and more, in four limbs of 16 bits, the most significant
\* first: <<a, b, c, d>> is a * 2^48 + b * 2^32 + c * 2^16 + d, where a is any
\* integer (negative for a negative number) and b, c, d are in 0 .. Limb - 1
Limb == 65536
HalfLimb == 32768

\* an integer of small magnitude as a wide integer
W(n) ==
    <<IF n < 0 THEN -1 ELSE 0, IF n < 0 THEN Limb - 1 ELSE 0, (n \div Limb) % Limb, n % Limb>>

\* carries taken from each limb into the next
Norm(a) ==
    LET d == a[4]
        c == a[3] + (d \div Limb)
        b == a[2] + (c \div Limb)
    IN <<a[1] + (b \div Limb), b % Limb, c % Limb, d % Limb>>

WAdd(a, b) == Norm(<<a[1] + b[1], a[2] + b[2], a[3] + b[3], a[4] + b[4]>>)

WLt(a, b) ==
    \/ a[1] < b[1]
    \/ a[1] = b[1] /\ a[2] < b[2]
    \/ a[1] = b[1] /\ a[2] = b[2] /\ a[3] < b[3]
    \/ a[1] = b[1] /\ a[2] = b[2] /\ a[3] = b[3] /\ a[4] < b[4]

WLe(a, b) == a = b \/ WLt(a, b)

\* the conversions of Go between integer types: the low bits are kept
Uint32Of(a) == <<0, 0, a[3], a[4]>>
Int32Of(a) == IF a[3] >= HalfLimb THEN <<-1, Limb - 1, a[3], a[4]>> ELSE <<0, 0, a[3], a[4]>>
Uint64Of(a) == <<a[1] % Limb, a[2], a[3], a[4]>>
Int64Of(a) ==
    <<IF a[1] % Limb >= HalfLimb THEN (a[1] % Limb) - Limb ELSE a[1] % Limb, a[2], a[3], a[4]>>

\* package math
MaxInt32 == <<0, 0, HalfLimb - 1, Limb - 1>>
MaxUint32 == <<0, 0, Limb - 1, Limb - 1>>
MaxInt64 == <<HalfLimb - 1, Limb - 1, Limb - 1, Limb - 1>>

\* a Go value: its dynamic type and, for the numeric types, its number
\* (a floating-point value is given by an integer it equals)
GoVal(k, a) == [k |-> k, n |-> a]
IntVal(n) == GoVal("int", W(n))
StrVal == GoVal("string", W(0))

\* MetricType.IsCompatible, int being 64 bits wide
IsCompatible(m, val) ==
    CASE val.k = "int" ->
           IF WLt(val.n, W(0)) THEN m \in {Int32Type, Int64Type}
           ELSE IF WLe(val.n, MaxInt32) THEN m \in {Int32Type, Int64Type, Uint32Type, Uint64Type}
           ELSE IF WLe(Uint32Of(val.n), MaxUint32) THEN m \in {Int64Type, Uint32Type, Uint64Type}
           ELSE IF WLe(Int64Of(val.n), MaxInt64) THEN m \in {Int64Type, Uint64Type}
           ELSE FALSE
      [] val.k = "int32" -> m = Int32Type
      [] val.k = "int64" -> m = Int64Type
      [] val.k = "uint" ->
           IF WLt(MaxUint32, val.n) THEN m = Uint64Type ELSE m \in {Uint32Type, Uint64Type}
      [] val.k = "uint32" -> m = Uint32Type
      [] val.k = "uint64" -> m = Uint64Type
      [] OTHER -> FALSE

Threads == 1..NThreads

\* the types of the metrics and the values passed to NewPCPMetric and Set
MetricTypes == {Int32Type, Uint32Type}
Values == {IntVal(-1), IntVal(1), StrVal}

ErrNewIncompatible == "the passed MetricType and values are incompatible"
ErrSetIncompatible == "the value is incompatible with this metrics MetricType"

\* NewPCPMetric
NewPCPMetric(val, t) ==
    /\ metric = "none"
    /\ IF ~IsCompatible(t, val)
       THEN /\ metric' = ErrNewIncompatible
            /\ UNCHANGED <<mtype, mval, mhist>>
       ELSE /\ metric' = "ok"
            /\ mtype' = t
            /\ mval' = val
            /\ mhist' = <<val>>
    /\ UNCHANGED <<mwriter, mreaders, mpc, marg, mgot, mseen, ops, dumpVars, funcVars, writerVars>>

\* the calls a goroutine has made
CallsOf(t) == {i \in 1..Len(ops) : ops[i].t = t}

\* the call a goroutine is in: its last
Cur(t) == CHOOSE i \in CallsOf(t) : \A k \in CallsOf(t) : k <= i

Returned == {i \in 1..Len(ops) : ops[i].st # "pending"}

Call(t, kind, arg) ==
    [t |-> t, kind |-> kind, arg |-> arg, st |-> "pending", ret |-> StrVal, after |-> Returned]

CanCall(t) ==
    /\ metric = "ok"
    /\ mpc[t] = "idle"
    /\ Cardinality(CallsOf(t)) < MaxOps

\* Set without the IsCompatible check
SetCallNoCheck(t, val) ==
    /\ CanCall(t)
    /\ ops' = Append(ops, Call(t, "set", val))
    /\ mpc' = [mpc EXCEPT ![t] = "cmp"]
    /\ marg' = [marg EXCEPT ![t] = val]
    /\ UNCHANGED <<metric, mtype, mval, mhist, mwriter, mreaders, mgot, mseen, dumpVars, funcVars, writerVars>>

\* Set that stores the value before it returns the error
SetCallErrStores(t, val) ==
    /\ CanCall(t)
    /\ IF ~IsCompatible(mtype, val)
       THEN /\ ops' = Append(ops, [Call(t, "set", val) EXCEPT !.st = "err"])
            /\ mval' = val
            /\ mhist' = Append(mhist, val)
            /\ UNCHANGED <<mpc, marg>>
       ELSE /\ ops' = Append(ops, Call(t, "set", val))
            /\ mpc' = [mpc EXCEPT ![t] = "cmp"]
            /\ marg' = [marg EXCEPT ![t] = val]
            /\ UNCHANGED <<mval, mhist>>
    /\ UNCHANGED <<metric, mtype, mwriter, mreaders, mgot, mseen, dumpVars, funcVars, writerVars>>

\* Set: the call and the IsCompatible check on its argument
SetCall(t, val) ==
    /\ CanCall(t)
    /\ IF ~IsCompatible(mtype, val)
       THEN /\ ops' = Append(ops, [Call(t, "set", val) EXCEPT !.st = "err"])
            /\ UNCHANGED <<mpc, marg>>
       ELSE /\ ops' = Append(ops, Call(t, "set", val))
            /\ mpc' = [mpc EXCEPT ![t] = "cmp"]
            /\ marg' = [marg EXCEPT ![t] = val]
    /\ UNCHANGED <<metric, mtype, mval, mhist, mwriter, mreaders, mgot, mseen, dumpVars, funcVars, writerVars>>

\* what a read of val outside the lock may return: the value of any store that
\* is not known to be overwritten by a store that happens before the read
RacyVal(t) == {mhist[i] : i \in mseen[t]..Len(mhist)}

\* Set: if val != m.val, read without the lock; an equal value returns nil
SetCompare(t) ==
    /\ mpc[t] = "cmp"
    /\ \E x \in RacyVal(t) :
         IF marg[t] # x
         THEN /\ mpc' = [mpc EXCEPT ![t] = "lock"]
              /\ UNCHANGED ops
         ELSE /\ mpc' = [mpc EXCEPT ![t] = "idle"]
              /\ ops' = [ops EXCEPT ![Cur(t)].st = "ok"]
    /\ UNCHANGED <<metric, mtype, mval, mhist, mwriter, mreaders, marg, mgot, mseen, dumpVars, funcVars, writerVars>>

\* Set: m.Lock()
SetLock(t) ==
    /\ mpc[t] = "lock"
    /\ mwriter = 0
    /\ mreaders = {}
    /\ mwriter' = t
    /\ mseen' = [mseen EXCEPT ![t] = Len(mhist)]
    /\ mpc' = [mpc EXCEPT ![t] = "store"]
    /\ UNCHANGED <<metric, mtype, mval, mhist, mreaders, marg, mgot, ops, dumpVars, funcVars, writerVars>>

\* Set: m.val = val
SetStore(t) ==
    /\ mpc[t] = "store"
    /\ mval' = marg[t]
    /\ mhist' = Append(mhist, marg[t])
    /\ mseen' = [mseen EXCEPT ![t] = Len(mhist) + 1]
    /\ mpc' = [mpc EXCEPT ![t] = "unlock"]
    /\ UNCHANGED <<metric, mtype, mwriter, mreaders, marg, mgot, ops, dumpVars, funcVars, writerVars>>

\* Set: the deferred m.Unlock() and return nil
SetUnlock(t) ==
    /\ mpc[t] = "unlock"
    /\ mwriter' = 0
    /\ mpc' = [mpc EXCEPT ![t] = "idle"]
    /\ ops' = [ops EXCEPT ![Cur(t)].st = "ok"]
    /\ UNCHANGED <<metric, mtype, mval, mhist, mreaders, marg, mgot, mseen, dumpVars, funcVars, writerVars>>

\* Val: the call and m.RLock()
ValRLock(t) ==
    /\ CanCall(t)
    /\ mwriter = 0
    /\ mreaders' = mreaders \cup {t}
    /\ mseen' = [mseen EXCEPT ![t] = Len(mhist)]
    /\ mpc' = [mpc EXCEPT ![t] = "read"]
    /\ ops' = Append(ops, Call(t, "val", StrVal))
    /\ UNCHANGED <<metric, mtype, mval, mhist, mwriter, marg, mgot, dumpVars, funcVars, writerVars>>

\* Val: the read of m.val
ValRead(t) ==
    /\ mpc[t] = "read"
    /\ mgot' = [mgot EXCEPT ![t] = mval]
    /\ mpc' = [mpc EXCEPT ![t] = "runlock"]
    /\ UNCHANGED <<metric, mtype, mval, mhist, mwriter, mreaders, marg, mseen, ops, dumpVars, funcVars, writerVars>>

\* Val: the deferred m.RUnlock() and the return
ValRUnlock(t) ==
    /\ mpc[t] = "runlock"
    /\ mreaders' = mreaders \ {t}
    /\ mpc' = [mpc EXCEPT ![t] = "idle"]
    /\ ops' = [ops EXCEPT ![Cur(t)].st = "ok", ![Cur(t)].ret = mgot[t]]
    /\ UNCHANGED <<metric, mtype, mval, mhist, mwriter, marg, mgot, mseen, dumpVars, funcVars, writerVars>>

MetricNext ==
    \/ \E val \in Values, t \in MetricTypes : NewPCPMetric(val, t)
    \/ \E t \in Threads, val \in Values : SetCall(t, val)
    \/ \E t \in Threads : SetCompare(t)
    \/ \E t \in Threads : SetLock(t)
    \/ \E t \in Threads : SetStore(t)
    \/ \E t \in Threads : SetUnlock(t)
    \/ \E t \in Threads : ValRLock(t)
    \/ \E t \in Threads : ValRead(t)
    \/ \E t \in Threads : ValRUnlock(t)

\* no metric yet, and no goroutine in Set or Val
MetricInit ==
    /\ metric = "none"
    /\ mtype = NoSupportType
    /\ mval = StrVal
    /\ mhist = <<>>
    /\ mwriter = 0
    /\ mreaders = {}
    /\ mpc = [t \in Threads |-> "idle"]
    /\ marg = [t \in Threads |-> StrVal]
    /\ mgot = [t \in Threads |-> StrVal]
    /\ mseen = [t \in Threads |-> 1]
    /\ ops = <<>>

------------------------------------------------------------------------------
(* mmvdump: FixedVal; calls of the pure functions *)

ErrInvalidType == "invalid type"

\* FixedVal that returns the whole word for every integer type
FixedValWhole(w, t) ==
    IF t \in {Int32Type, Uint32Type, Int64Type, Uint64Type, FloatType, DoubleType}
    THEN [val |-> Some(GoVal(CASE t = Int32Type -> "int32" [] t = Uint32Type -> "uint32"
                               [] t = Int64Type -> "int64" [] t = Uint64Type -> "uint64"
                               [] t = FloatType -> "float32" [] OTHER -> "float64", w)),
          err |-> NoErr]
    ELSE [val |-> Nil, err |-> ErrInvalidType]

\* FixedVal: the payload word of a value record read as the type t; a
\* floating-point value is given by its IEEE-754 bits
FixedVal(w, t) ==
    CASE t = Int32Type -> [val |-> Some(GoVal("int32", Int32Of(w))), err |-> NoErr]
      [] t = Uint32Type -> [val |-> Some(GoVal("uint32", Uint32Of(w))), err |-> NoErr]
      [] t = Int64Type -> [val |-> Some(GoVal("int64", Int64Of(w))), err |-> NoErr]
      [] t = Uint64Type -> [val |-> Some(GoVal("uint64", w)), err |-> NoErr]
      [] t = FloatType -> [val |-> Some(GoVal("float32", Uint32Of(w))), err |-> NoErr]
      [] t = DoubleType -> [val |-> Some(GoVal("float64", w)), err |-> NoErr]
      [] OTHER -> [val |-> Nil, err |-> ErrInvalidType]

MinInt32 == <<-1, Limb - 1, HalfLimb, 0>>
MinInt64 == <<0 - HalfLimb, 0, 0, 0>>
MaxUint64 == <<Limb - 1, Limb - 1, Limb - 1, Limb - 1>>

\* 0, 2^31, 2^32, 2^40, 2^63, 2^64 and -2^31, -2^32, -2^40, -2^63
Landmarks ==
    {W(0), <<0, 0, HalfLimb, 0>>, <<0, 1, 0, 0>>, <<0, 256, 0, 0>>, <<HalfLimb, 0, 0, 0>>,
     <<Limb, 0, 0, 0>>, MinInt32, <<-1, Limb - 1, 0, 0>>, <<-1, Limb - 256, 0, 0>>, MinInt64}

\* the integers within MaxDelta of zero and of the bounds of the integer types
Near == UNION {{WAdd(a, W(d)) : d \in (0 - MaxDelta)..MaxDelta} : a \in Landmarks}

InRange(S, lo, hi) == {a \in S : WLe(lo, a) /\ WLe(a, hi)}

\* the bits of some floating-point values: 0, 3.14, MaxFloat32 and -MaxFloat32
Float32Bits == {W(0), <<0, 0, 16456, 62915>>, <<0, 0, 32639, Limb - 1>>, <<0, 0, 65407, Limb - 1>>}
Float64Bits ==
    {W(0), <<16393, 7864, 20971, 34079>>, <<18415, Limb - 1, 57344, 0>>,
     <<51183, Limb - 1, 57344, 0>>}

\* a << n and a | b on unsigned integers
Shl(a, n) == a * 2^n

RECURSIVE BitOr(_, _)
BitOr(a, b) ==
    IF a = 0 THEN b
    ELSE IF b = 0 THEN a
    ELSE (IF a % 2 = 1 \/ b % 2 = 1 THEN 1 ELSE 0) + 2 * BitOr(a \div 2, b \div 2)

\* scale fields that fall on the dimension fields
SpaceUnitScaleAt28(iota) == BitOr(Shl(1, 28), Shl(iota, 28))

\* the constant expressions of the unit types, at the position iota of the
\* const block
SpaceUnit(iota) == BitOr(Shl(1, 28), Shl(iota, 16))
TimeUnit(iota) == BitOr(Shl(1, 24), Shl(iota, 12))
CountUnit(iota) == BitOr(Shl(1, 20), Shl(iota, 8))

\* ByteUnit .. ExabyteUnit, NanosecondUnit .. HourUnit, OneUnit, in the order
\* of their declaration
SpaceUnits == [i \in 1..7 |-> GoVal("SpaceUnit", W(SpaceUnit(i - 1)))]
TimeUnits == [i \in 1..6 |-> GoVal("TimeUnit", W(TimeUnit(i - 1)))]
CountUnits == [i \in 1..1 |-> GoVal("CountUnit", W(CountUnit(i - 1)))]

Units ==
    {SpaceUnits[i] : i \in DOMAIN SpaceUnits} \cup {TimeUnits[i] : i \in DOMAIN TimeUnits}
    \cup {CountUnits[i] : i \in DOMAIN CountUnits}

\* PMAPI: uint32(s)
PMAPI(u) == Uint32Of(u.n)

\* a write of width bytes to the buffer, holding the low bits of a
Prim(width, a) == [width |-> width, bits |-> IF width = 4 THEN Uint32Of(a) ELSE Uint64Of(a)]

\* MetricType.WriteVal: the writes it makes to the buffer, in order
WriteVal(m, val) ==
    CASE val.k = "int" ->
           CASE m = Int32Type -> <<Prim(4, Int32Of(val.n))>>
             [] m = Int64Type -> <<Prim(8, Int64Of(val.n))>>
             [] m = Uint32Type -> <<Prim(4, Uint32Of(val.n))>>
             [] m = Uint64Type -> <<Prim(8, Uint64Of(val.n))>>
             [] OTHER -> <<>>
      [] val.k = "int32" -> <<Prim(4, val.n)>>
      [] val.k = "int64" -> <<Prim(8, val.n)>>
      [] val.k = "uint" ->
           CASE m = Uint32Type -> <<Prim(4, Uint32Of(val.n))>>
             [] m = Uint64Type -> <<Prim(8, Uint64Of(val.n))>>
             [] OTHER -> <<>>
      [] val.k = "uint32" -> <<Prim(4, val.n)>>
      [] val.k = "uint64" -> <<Prim(8, val.n)>>
      [] OTHER -> <<>>

\* the byte k (from 0, the least significant) of a wide integer
ByteOf(a, k) == IF k % 2 = 0 THEN a[4 - (k \div 2)] % 256 ELSE a[4 - (k \div 2)] \div 256

\* the payload of a value: eight zero bytes, over which the writes are laid
\* one after the other from the start, each little-endian
RECURSIVE Payload(_, _, _)
Payload(prims, i, pos) ==
    IF i > Len(prims) THEN [k \in 1..8 |-> 0]
    ELSE [k \in 1..8 |->
            IF k > pos /\ k <= pos + prims[i].width THEN ByteOf(prims[i].bits, k - pos - 1)
            ELSE Payload(prims, i + 1, pos + prims[i].width)[k]]

\* the payload read as a little-endian 64-bit word
WordOf(b) == <<b[8] * 256 + b[7], b[6] * 256 + b[5], b[4] * 256 + b[3], b[2] * 256 + b[1]>>

\* the values a caller can pass as an interface{}
GoValues ==
    {GoVal("int", a) : a \in InRange(Near, MinInt64, MaxInt64)}
    \cup {GoVal("int32", a) : a \in InRange(Near, MinInt32, MaxInt32)}
    \cup {GoVal("int64", a) : a \in InRange(Near, MinInt64, MaxInt64)}
    \cup {GoVal("uint", a) : a \in InRange(Near, W(0), MaxUint64)}
    \cup {GoVal("uint32", a) : a \in InRange(Near, W(0), MaxUint32)}
    \cup {GoVal("uint64", a) : a \in InRange(Near, W(0), MaxUint64)}
    \cup {GoVal("float32", a) : a \in Float32Bits}
    \cup {GoVal("float64", a) : a \in Float64Bits}
    \cup {GoVal("float64", <<18431, Limb - 1, 57344, 0>>)}
    \cup {StrVal}

\* the type tags: the declared ones up to AggregateType, and NoSupportType
TypeTags == NoSupportType..(StringType + 1)

\* payload words: 64-bit patterns near the bounds, and two with the bits 31 and
\* 63 set over other bits
Words ==
    InRange(Near, W(0), MaxUint64)
    \cup {<<HalfLimb + 1, 2, HalfLimb + 3, 4>>, <<1, Limb - 1, Limb - 1, Limb - 2>>}

FuncCalls ==
    [fn : {"IsCompatible"}, t : TypeTags, v : GoValues]
    \cup [fn : {"FixedVal"}, t : TypeTags, v : {GoVal("uint64", w) : w \in Words}]
    \cup [fn : {"PMAPI"}, t : {NoSupportType}, v : Units]
    \cup [fn : {"WriteVal"}, t : TypeTags, v : GoValues]

NoCall == [fn |-> "none", t |-> NoSupportType, v |-> StrVal]

CallIsCompatible ==
    /\ fcall.fn = "IsCompatible"
    /\ fres = Nil
    /\ fres' = Some(IsCompatible(fcall.t, fcall.v))
    /\ UNCHANGED <<fcall, dumpVars, metricVars, writerVars>>

CallFixedVal ==
    /\ fcall.fn = "FixedVal"
    /\ fres = Nil
    /\ fres' = Some(FixedVal(fcall.v.n, fcall.t))
    /\ UNCHANGED <<fcall, dumpVars, metricVars, writerVars>>

CallPMAPI ==
    /\ fcall.fn = "PMAPI"
    /\ fres = Nil
    /\ fres' = Some(PMAPI(fcall.v))
    /\ UNCHANGED <<fcall, dumpVars, metricVars, writerVars>>

\* WriteVal on the zeroed payload of a value
CallWriteVal ==
    /\ fcall.fn = "WriteVal"
    /\ fres = Nil
    /\ fres' = Some([prims |-> WriteVal(fcall.t, fcall.v),
                     payload |-> Payload(WriteVal(fcall.t, fcall.v), 1, 0)])
    /\ UNCHANGED <<fcall, dumpVars, metricVars, writerVars>>

FuncNext == CallIsCompatible \/ CallFixedVal \/ CallPMAPI \/ CallWriteVal

FuncIdle == fcall = NoCall /\ fres = Nil

------------------------------------------------------------------------------
(* bytewriter: MemoryMappedWriter *)

Bytes == {0, 1}

\* what a file at the location may hold before the writer is made
Contents == UNION {[1..n -> Bytes] : n \in 0..MaxSize}

Zeros(n) == [i \in 1..n |-> 0]

\* the n first bytes of old replaced by zeros, as f.Write does at offset 0
ZeroFill(old, n) == [i \in 1..(IF n > Len(old) THEN n ELSE Len(old)) |-> IF i <= n THEN 0 ELSE old[i]]

\* the writer: f is open, the mapping handle h is open, the view is mapped;
\* buffer is the view; written tells that it was written to; removed tells
\* that a file found at the location was removed; removefile is the argument
\* of the Unmap in progress, unmaps counts the calls of Unmap
NoWriter ==
    [f |-> FALSE, h |-> FALSE, view |-> FALSE, buffer |-> <<>>, written |-> FALSE,
     removed |-> FALSE, removefile |-> FALSE, unmaps |-> 0]

Ret(call, err) == [call |-> call, err |-> err, removefile |-> writer.removefile]

NoRet == [call |-> "none", err |-> NoErr, removefile |-> FALSE]

\* NewMemoryMappedWriter returns nil and the error
NewFails(err) ==
    /\ wpc' = "failed"
    /\ wret' = Ret("new", err)

\* NewMemoryMappedWriter(loc, size): the call
NewMemoryMappedWriter(size) ==
    /\ wpc = "idle"
    /\ wpc' = "stat"
    /\ wsize' = size
    /\ UNCHANGED <<file, writer, wret, dumpVars, metricVars, funcVars>>

\* os.Stat(loc): with err == nil the file is to be removed; a missing file, or
\* any other failure of Stat, skips the removal
NewStat ==
    /\ wpc = "stat"
    /\ \/ file # Nil /\ wpc' = "remove"
       \/ wpc' = "mkdir"
    /\ UNCHANGED <<file, writer, wsize, wret, dumpVars, metricVars, funcVars>>

\* os.Remove(loc) of the file found
NewRemove ==
    /\ wpc = "remove"
    /\ \/ /\ file' = Nil
          /\ writer' = [writer EXCEPT !.removed = TRUE]
          /\ wpc' = "mkdir"
          /\ UNCHANGED wret
       \/ NewFails("Remove") /\ UNCHANGED <<file, writer>>
    /\ UNCHANGED <<wsize, dumpVars, metricVars, funcVars>>

\* os.MkdirAll(dir, 0700)
NewMkdirAll ==
    /\ wpc = "mkdir"
    /\ \/ wpc' = "open" /\ UNCHANGED wret
       \/ NewFails("MkdirAll")
    /\ UNCHANGED <<file, writer, wsize, dumpVars, metricVars, funcVars>>

\* os.OpenFile without O_EXCL: opens a file that exists, with what it holds
NewOpenFileNoExcl ==
    /\ wpc = "open"
    /\ \/ /\ file' = IF file = Nil THEN Some(<<>>) ELSE file
          /\ writer' = [writer EXCEPT !.f = TRUE]
          /\ wpc' = "write"
          /\ UNCHANGED wret
       \/ NewFails("OpenFile") /\ UNCHANGED <<file, writer>>
    /\ UNCHANGED <<wsize, dumpVars, metricVars, funcVars>>

\* os.OpenFile with O_CREAT|O_RDWR|O_EXCL: fails on a file that exists
NewOpenFile ==
    /\ wpc = "open"
    /\ \/ /\ file = Nil
          /\ file' = Some(<<>>)
          /\ writer' = [writer EXCEPT !.f = TRUE]
          /\ wpc' = "write"
          /\ UNCHANGED wret
       \/ NewFails("OpenFile") /\ UNCHANGED <<file, writer>>
    /\ UNCHANGED <<wsize, dumpVars, metricVars, funcVars>>

\* f.Write(make([]byte, size)): make panics on a negative size; a write of
\* fewer bytes comes with an error
NewWrite ==
    /\ wpc = "write"
    /\ IF wsize < 0
       THEN wpc' = "panic" /\ UNCHANGED <<file, wret>>
       ELSE \/ /\ file' = Some(ZeroFill(file[1], wsize))
               /\ wpc' = "mapping"
               /\ UNCHANGED wret
            \/ \E l \in 0..(wsize - 1) :
                 /\ file' = Some(ZeroFill(file[1], l))
                 /\ NewFails("Write")
    /\ UNCHANGED <<writer, wsize, dumpVars, metricVars, funcVars>>

\* syscall.CreateFileMapping
NewCreateFileMapping ==
    /\ wpc = "mapping"
    /\ \/ /\ writer' = [writer EXCEPT !.h = TRUE]
          /\ wpc' = "view"
          /\ UNCHANGED wret
       \/ NewFails("CreateFileMapping") /\ UNCHANGED writer
    /\ UNCHANGED <<file, wsize, dumpVars, metricVars, funcVars>>

\* syscall.MapViewOfFile and the return of the writer over the view
NewMapViewOfFile ==
    /\ wpc = "view"
    /\ \/ /\ writer' = [writer EXCEPT !.view = TRUE, !.buffer = file[1]]
          /\ wpc' = "ready"
          /\ wret' = Ret("new", NoErr)
       \/ NewFails("MapViewOfFile") /\ UNCHANGED writer
    /\ UNCHANGED <<file, wsize, dumpVars, metricVars, funcVars>>

\* a write of one byte through the writer: the view is shared with the file
Write(pos, b) ==
    /\ wpc = "ready"
    /\ writer.view
    /\ pos \in 1..Len(writer.buffer)
    /\ writer' = [writer EXCEPT !.buffer[pos] = b, !.written = TRUE]
    /\ file' = Some([file[1] EXCEPT ![pos] = b])
    /\ UNCHANGED <<wpc, wsize, wret, dumpVars, metricVars, funcVars>>

\* Unmap(removefile): the call
Unmap(removefile) ==
    /\ wpc = "ready"
    /\ writer.unmaps < MaxUnmaps
    /\ writer' = [writer EXCEPT !.removefile = removefile, !.unmaps = @ + 1]
    /\ wpc' = "unmap"
    /\ UNCHANGED <<file, wsize, wret, dumpVars, metricVars, funcVars>>

\* syscall.UnmapViewOfFile(addr): an error is returned at once; there is no
\* view to unmap after an Unmap that unmapped it
UnmapViewOfFile ==
    /\ wpc = "unmap"
    /\ \/ /\ writer.view
          /\ writer' = [writer EXCEPT !.view = FALSE]
          /\ wpc' = "close"
          /\ UNCHANGED wret
       \/ /\ wpc' = "ready"
          /\ wret' = Ret("unmap", "UnmapViewOfFile")
          /\ UNCHANGED writer
    /\ UNCHANGED <<file, wsize, dumpVars, metricVars, funcVars>>

\* syscall.CloseHandle(b.h); b.f.Close(); return nil unless removefile
UnmapClose ==
    /\ wpc = "close"
    /\ writer' = [writer EXCEPT !.h = FALSE, !.f = FALSE]
    /\ IF writer.removefile
       THEN wpc' = "rmfile" /\ UNCHANGED wret
       ELSE wpc' = "ready" /\ wret' = Ret("unmap", NoErr)
    /\ UNCHANGED <<file, wsize, dumpVars, metricVars, funcVars>>

\* Unmap that returns nil whether or not os.Remove removed the file
UnmapRemoveUnchecked ==
    /\ wpc = "rmfile"
    /\ wpc' = "ready"
    /\ wret' = Ret("unmap", NoErr)
    /\ \/ file # Nil /\ file' = Nil
       \/ UNCHANGED file
    /\ UNCHANGED <<writer, wsize, dumpVars, metricVars, funcVars>>

\* os.Remove(b.loc) and the return
UnmapRemove ==
    /\ wpc = "rmfile"
    /\ wpc' = "ready"
    /\ \/ file # Nil /\ file' = Nil /\ wret' = Ret("unmap", NoErr)
       \/ wret' = Ret("unmap", "Remove") /\ UNCHANGED file
    /\ UNCHANGED <<writer, wsize, dumpVars, metricVars, funcVars>>

WriterNext ==
    \/ \E size \in (0 - 1)..MaxSize : NewMemoryMappedWriter(size)
    \/ NewStat
    \/ NewRemove
    \/ NewMkdirAll
    \/ NewOpenFile
    \/ NewWrite
    \/ NewCreateFileMapping
    \/ NewMapViewOfFile
    \/ \E pos \in 1..MaxSize, b \in Bytes : Write(pos, b)
    \/ \E removefile \in BOOLEAN : Unmap(removefile)
    \/ UnmapViewOfFile
    \/ UnmapClose
    \/ UnmapRemove

\* no writer yet
WriterIdle ==
    /\ wpc = "idle"
    /\ writer = NoWriter
    /\ wsize = 0
    /\ wret = NoRet

------------------------------------------------------------------------------
(* Input buffers *)

\* where the sections of a buffer with MaxTocs TOC entries start
SectionStart == HeaderLength + MaxTocs * TocLength

\* a length that holds MaxCount metric records after the TOC
FullLen == SectionStart + MaxCount * MetricLength

\* uint64(2^64 - InstanceLength): adding a record length to it wraps around
WrapOffset == 0 - InstanceLength

Offsets == {SectionStart, SectionStart + MetricLength, WrapOffset}

TocEntries == [type : {0} \cup KnownTypes, count : -1..MaxCount, offset : Offsets]

ZeroToc == [type |-> 0, count |-> 0, offset |-> 0]

DefaultTocs ==
    [i \in 1..MaxTocs |->
        IF i = 1 THEN [type |-> TocMetrics, count |-> 1, offset |-> SectionStart]
        ELSE [type |-> TocValues, count |-> 1, offset |-> SectionStart + MetricLength]]

DefaultBuffer ==
    [len |-> FullLen, magic |-> "MMV", version |-> SupportedVersion, g1 |-> 1, g2 |-> 1,
     toc |-> MaxTocs, tocs |-> DefaultTocs]

\* buffers that differ in their header fields
HeaderInputs ==
    [len : {0, HeaderLength - 1, HeaderLength, FullLen}, magic : {"MMV", "MMX"},
     version : {SupportedVersion, SupportedVersion + 1}, g1 : {0, 1}, g2 : {0, 1, 2},
     toc : -1..MaxTocs, tocs : {DefaultTocs}]

\* buffers that differ in their TOC entries
TocInputs ==
    {d \in [len : {FullLen}, magic : {"MMV"}, version : {SupportedVersion}, g1 : {1},
            g2 : {1, 2}, toc : 1..MaxTocs, tocs : [1..MaxTocs -> TocEntries \cup {ZeroToc}]] :
        \A i \in 1..MaxTocs : (d.tocs[i] = ZeroToc) <=> (i > d.toc)}

Inputs == HeaderInputs \cup TocInputs

Init ==
    /\ data \in Inputs
    /\ DumpInitRest
    /\ MetricInit
    /\ FuncIdle
    /\ WriterIdle
    /\ file = Nil

Next == DumpNext

Spec == Init /\ [][Next]_vars

\* buffers whose generation words differ, in front of any one TOC entry; and
\* buffers that differ in their header fields, one of them cut inside a record
MismatchInputs ==
    {[DefaultBuffer EXCEPT !.g2 = 2, !.tocs[k] = e] : k \in 1..MaxTocs, e \in TocEntries}

HeaderOnlyInputs ==
    HeaderInputs \cup MismatchInputs \cup {[DefaultBuffer EXCEPT !.len = SectionStart + MetricLength + ValueLength - 1]}

InitHeader ==
    /\ data \in HeaderOnlyInputs
    /\ DumpInitRest
    /\ MetricInit
    /\ FuncIdle
    /\ WriterIdle
    /\ file = Nil

SpecHeader == InitHeader /\ [][Next]_vars

\* buffers with one TOC entry, of any type, count and offset; every goroutine
\* that can take a step is scheduled in the end
OneTocInputs == {d \in TocInputs : d.toc = 1}

InitFair ==
    /\ data \in OneTocInputs
    /\ DumpInitRest
    /\ MetricInit
    /\ FuncIdle
    /\ WriterIdle
    /\ file = Nil

SpecFair == InitFair /\ [][Next]_vars /\ WF_vars(Next)

------------------------------------------------------------------------------
(* Well-formed buffers, as the writer lays them out, and their prefixes *)

\* the record count of each section, at most MaxTocs of them non-empty and at
\* most MaxRecords records in all
RECURSIVE RecordCount(_, _)
RecordCount(c, t) == IF t < TocIndoms THEN 0 ELSE RecordCount(c, t - 1) + c[t]

Layouts ==
    {c \in [KnownTypes -> 0..MaxCount] :
        /\ Cardinality({t \in KnownTypes : c[t] > 0}) <= MaxTocs
        /\ RecordCount(c, TocStrings) <= MaxRecords}

Present(c) == {t \in KnownTypes : c[t] > 0}

RECURSIVE SectionBytes(_, _)
SectionBytes(c, t) == IF t < TocIndoms THEN 0 ELSE SectionBytes(c, t - 1) + c[t] * Stride(t)

\* sections follow the TOC in the order indoms, instances, metrics, values, strings
SectionOffset(c, t) ==
    HeaderLength + Cardinality(Present(c)) * TocLength + SectionBytes(c, t - 1)

DeclaredSize(c) == SectionOffset(c, TocStrings + 1)

LayoutEntries(c) ==
    {[type |-> t, count |-> c[t], offset |-> SectionOffset(c, t)] : t \in Present(c)}

\* the TOC entries in any order
TocOrders(c) ==
    {s \in [1..Cardinality(Present(c)) -> LayoutEntries(c)] :
        \A i, k \in DOMAIN s : i # k => s[i] # s[k]}

\* the offsets at which a header, a TOC entry or a record of the layout ends
Boundaries(c) ==
    {0, HeaderLength}
    \cup {HeaderLength + k * TocLength : k \in 1..Cardinality(Present(c))}
    \cup {SectionOffset(c, t) + k * Stride(t) : t \in Present(c), k \in 1..MaxCount}

\* prefix lengths: every boundary and the byte before it (the readers compare
\* the length with boundaries only), up to the whole buffer
Cuts(c) == {n \in 0..DeclaredSize(c) : n \in Boundaries(c) \/ n + 1 \in Boundaries(c)}

WFBuffer(c, s, n) ==
    [len |-> n, magic |-> "MMV", version |-> SupportedVersion, g1 |-> 1, g2 |-> 1,
     toc |-> Cardinality(Present(c)), tocs |-> s]

WFInputs ==
    UNION {{WFBuffer(c, s, n) : s \in TocOrders(c), n \in Cuts(c)} : c \in Layouts}

\* the size a buffer declares: the end of its last TOC entry or record
RecordEnds(d) ==
    {d.tocs[i].offset + d.tocs[i].count * Stride(d.tocs[i].type) : i \in 1..d.toc}

SetMax(S) == CHOOSE x \in S : \A y \in S : y <= x

SizeOf(d) == SetMax({HeaderLength + d.toc * TocLength} \cup RecordEnds(d))

InitWF ==
    /\ data \in WFInputs
    /\ DumpInitRest
    /\ MetricInit
    /\ FuncIdle
    /\ WriterIdle
    /\ file = Nil

SpecWF == InitWF /\ [][Next]_vars

\* one metric and the goroutines calling Set and Val on it; Dump is not running
DumpOff ==
    /\ data = DefaultBuffer
    /\ dpc = "off"
    /\ tocs = Nil
    /\ wgc = 0
    /\ sec = [i \in 1..MaxTocs |-> SecIdle]
    /\ shared = SharedInit
    /\ result = NoResult

InitMetric ==
    /\ MetricInit
    /\ DumpOff
    /\ FuncIdle
    /\ WriterIdle
    /\ file = Nil

SpecMetric == InitMetric /\ [][MetricNext]_vars

\* the same goroutines, making at most MaxCalls calls between them
SetCallFew(t, val) == Len(ops) < MaxCalls /\ SetCall(t, val)

ValRLockFew(t) == Len(ops) < MaxCalls /\ ValRLock(t)

MetricNextFew ==
    \/ \E val \in Values, t \in MetricTypes : NewPCPMetric(val, t)
    \/ \E t \in Threads, val \in Values : SetCallFew(t, val)
    \/ \E t \in Threads : SetCompare(t)
    \/ \E t \in Threads : SetLock(t)
    \/ \E t \in Threads : SetStore(t)
    \/ \E t \in Threads : SetUnlock(t)
    \/ \E t \in Threads : ValRLockFew(t)
    \/ \E t \in Threads : ValRead(t)
    \/ \E t \in Threads : ValRUnlock(t)

SpecMetricFew == InitMetric /\ [][MetricNextFew]_vars

\* examples/http_counter. main: the metric "http.requests", an Int32Type
\* counter created with the value 0; the metric holds either the int it was
\* given, as NewPCPMetric stores it, or that value as an int32
main ==
    \E val \in {IntVal(0), GoVal("int32", W(0))} : NewPCPMetric(val, Int32Type)

\* the handlers a goroutine serves one after the other make a Val call and
\* then a Set call each
InHandler(t) == Cardinality(CallsOf(t)) % 2 = 1

\* handleIncrement: a request arrives and the handler calls metric.Val()
HandlerVal(t) ==
    /\ ~InHandler(t)
    /\ Cardinality(CallsOf(t)) + 2 <= MaxOps
    /\ ValRLock(t)

\* handleIncrement: the assertion .(int32) on a value of another type panics
HandlerPanic(t) ==
    /\ InHandler(t)
    /\ mpc[t] = "idle"
    /\ ops[Cur(t)].ret.k # "int32"
    /\ mpc' = [mpc EXCEPT ![t] = "panic"]
    /\ UNCHANGED <<metric, mtype, mval, mhist, mwriter, mreaders, marg, mgot, mseen, ops, dumpVars, funcVars, writerVars>>

\* handleIncrement: v++ and metric.MustSet(v), which is Set and a panic on an
\* error that an int32 never gets from an Int32Type metric
HandlerSet(t) ==
    /\ InHandler(t)
    /\ mpc[t] = "idle"
    /\ ops[Cur(t)].ret.k = "int32"
    /\ SetCall(t, GoVal("int32", Int32Of(WAdd(ops[Cur(t)].ret.n, W(1)))))

CounterNext ==
    \/ main
    \/ \E t \in Threads : HandlerVal(t)
    \/ \E t \in Threads : ValRead(t)
    \/ \E t \in Threads : ValRUnlock(t)
    \/ \E t \in Threads : HandlerPanic(t)
    \/ \E t \in Threads : HandlerSet(t)
    \/ \E t \in Threads : SetCompare(t)
    \/ \E t \in Threads : SetLock(t)
    \/ \E t \in Threads : SetStore(t)
    \/ \E t \in Threads : SetUnlock(t)

SpecCounter == InitMetric /\ [][CounterNext]_vars

\* one call of IsCompatible or FixedVal
InitFunc ==
    /\ fcall \in FuncCalls
    /\ fres = Nil
    /\ DumpOff
    /\ MetricInit
    /\ WriterIdle
    /\ file = Nil

SpecFunc == InitFunc /\ [][FuncNext]_vars

\* one writer, made over a location that holds a file or none
InitWriter ==
    /\ file \in {Nil} \cup {Some(c) : c \in Contents}
    /\ WriterIdle
    /\ DumpOff
    /\ MetricInit
    /\ FuncIdle

SpecWriter == InitWriter /\ [][WriterNext]_vars

------------------------------------------------------------------------------
(* Properties of Dump *)

HeaderIntact == data.len >= HeaderLength /\ data.magic = "MMV"

Accepted == dpc = "done" /\ result.err = NoErr

\* the map Dump returned for a TOC type
MapOf(r, t) ==
    CASE t = TocIndoms -> r.indoms
      [] t = TocInstances -> r.instances
      [] t = TocMetrics -> r.metrics
      [] t = TocValues -> r.values
      [] t = TocStrings -> r.strings

\* the records of a TOC entry, each under its byte offset
EntryMap(e) ==
    {<<Add64(e.offset, k * Stride(e.type)), Add64(e.offset, k * Stride(e.type))>> :
        k \in 0..(e.count - 1)}

\* C1: whenever Dump returns a nil error, the returned header has G1 = G2 and
\* that generation is not zero.
C1_AcceptedGenerationNonzero ==
    Accepted => (result.h[1].g1 = result.h[1].g2 /\ result.h[1].g1 # 0)

\* C2: on a buffer of at least a header's length with the magic "MMV" whose G1
\* differs from G2, Dump returns the generation-mismatch error and nil for the
\* header, the TOCs and every map, whatever the TOC and the sections hold.
C2_GenerationMismatchRejected ==
    (dpc # "init" /\ HeaderIntact /\ data.g1 # data.g2)
        => (dpc = "done" /\ result = NilResult(ErrMismatch))

\* C2 witness: a mismatched header in front of a TOC entry with a negative count
C2_Witness ==
    /\ dpc = "done" /\ HeaderIntact /\ data.g1 # data.g2
    /\ data.len = FullLen /\ data.toc = MaxTocs /\ data.tocs[1].count < 0
    /\ result.err = ErrMismatch

\* C3: the outcome of Dump is the same under every interleaving of its
\* goroutines and is that of the sequential decode of the TOC entries.
C3_SameAsSequential ==
    /\ dpc = "done" => (SeqDump(data).st = "done" /\ result = SeqDump(data).res)
    /\ dpc = "panic" => SeqDump(data).st = "panic"

TruncatedErrs == {ErrTooSmall, ErrToc} \cup {RecordErr(t) : t \in KnownTypes}

\* C4: on a proper prefix of a well-formed buffer Dump does not panic, does not
\* stay blocked, returns nothing but an error saying the buffer is incomplete,
\* and puts no record in a map that extends past the end of the prefix.
C4_TruncatedRejected ==
    data.len < SizeOf(data) =>
        /\ dpc # "panic"
        /\ dpc = "wait" => ENABLED Next
        /\ dpc = "done" => (result.err \in TruncatedErrs /\ result = NilResult(result.err))
        /\ \A i \in 1..MaxTocs : \A p \in sec[i].m :
              p[1] >= 0 /\ p[1] + Stride(Toc(i).type) <= data.len

\* C4 witness: header and TOC intact, one record read into its map and another
\* cut by the end of the prefix
C4_Witness ==
    /\ dpc = "done" /\ data.len < SizeOf(data)
    /\ data.len >= HeaderLength + data.toc * TocLength
    /\ \E i \in 1..MaxTocs : sec[i].m # {} /\ result.err = RecordErr(Toc(i).type)

\* C5: Dump never panics, whatever the header and TOC fields hold.
C5_NeverPanics == dpc # "panic"

ErrVersion == "VersionSkew"

\* C6: a buffer with the right magic and equal generation words but a version
\* other than the supported one is rejected with a version error and not decoded.
C6_VersionValidated ==
    (dpc = "done" /\ HeaderIntact /\ data.g1 = data.g2 /\ data.version # SupportedVersion)
        => result = NilResult(ErrVersion)

\* the TOC entries of the buffer, as a set: their positions forgotten
EntrySet(d) == {d.tocs[i] : i \in 1..d.toc}

\* C7: on a whole well-formed buffer Dump succeeds, and the map of each section
\* type depends on the set of TOC entries only, not on their order: it holds the
\* records of the entry of that type, and is nil when the TOC has no such entry.
C7_MatchedByType ==
    data.len = SizeOf(data) =>
        /\ dpc # "panic"
        /\ dpc = "wait" => ENABLED Next
        /\ dpc = "done" =>
              /\ result.err = NoErr
              /\ \A t \in KnownTypes :
                    /\ \A e \in EntrySet(data) : e.type = t => MapOf(result, t) = Some(EntryMap(e))
                    /\ (\A e \in EntrySet(data) : e.type # t) => MapOf(result, t) = Nil

\* C7 witness: two sections listed in the TOC in the reverse of their order in
\* the buffer, with no indoms and no instances
C7_Witness ==
    /\ dpc = "done" /\ data.len = SizeOf(data) /\ data.toc = 2
    /\ data.tocs[1].offset > data.tocs[2].offset
    /\ result.indoms = Nil /\ result.instances = Nil
    /\ result.metrics # Nil /\ result.err = NoErr

\* C8: when Dump succeeds, the map of each TOC entry's type holds exactly the
\* records of that entry, keyed by their offsets.
C8_MapsHoldEveryEntry ==
    Accepted =>
        \A i \in 1..Len(tocs[1]) :
            Toc(i).type \in KnownTypes => MapOf(result, Toc(i).type) = Some(EntryMap(Toc(i)))

\* C22: Dump terminates on every buffer: whatever the types and counts of the
\* TOC entries, it returns in the end (or stops with a panic).
C22_DumpTerminates == <>(dpc \in {"done", "panic"})

\* the section reader of a TOC entry has returned
SecReturned(i) == sec[i].pc \in {"stmap", "sterr", "done", "end"}

\* a record of the entry ends past the end of the buffer
SomeRecordCut(i) ==
    \E j \in 1..Toc(i).count :
        Toc(i).offset + j * Stride(Toc(i).type) > data.len

\* C23: every step of a record goroutine that reads or writes the section's
\* error variable or writes the result map is taken with the section mutex
\* held by that goroutine; and a section reader returns an error exactly when
\* one of its records ends past the end of the buffer.
C23_SharedUnderMutex ==
    /\ [][\A i \in 1..MaxTocs : \A j \in 1..MaxCount :
            (sec[i].rec[j] \in {"chk", "ins", "seterr"} /\ sec'[i].rec[j] # sec[i].rec[j])
                => sec[i].mtx = j]_vars
    /\ [](\A i \in 1..MaxTocs :
            SecReturned(i) => (sec[i].rete # NoErr <=> SomeRecordCut(i)))

------------------------------------------------------------------------------
(* Properties of PCPMetric *)

Perms(S) == {f \in [1..Cardinality(S) -> S] : \A a, b \in 1..Cardinality(S) : a # b => f[a] # f[b]}

\* the calls in the order f, made one at a time on a metric holding v: a Set
\* that returned nil (or has not returned) stores its argument, a Set that
\* returned an error stores nothing, a Val returns the value held
RECURSIVE Replay(_, _, _)
Replay(f, i, v) ==
    IF i > Len(f) THEN TRUE
    ELSE LET o == ops[f[i]] IN
         IF o.kind = "set" THEN Replay(f, i + 1, IF o.st = "err" THEN v ELSE o.arg)
         ELSE o.ret = v /\ Replay(f, i + 1, v)

\* a call that had returned before another was made comes before it
RealTime(f) == \A a, b \in 1..Len(f) : a < b => f[b] \notin ops[f[a]].after

PendingSets == {i \in 1..Len(ops) : ops[i].st = "pending" /\ ops[i].kind = "set"}

\* C9: the calls of Set and Val made so far are linearizable: the calls that have
\* returned, with some of the Sets that have not, can be put in one order that
\* keeps the order of calls that did not overlap and in which every Val returns
\* the value of the last successful Set before it, or the initial value.
C9_Linearizable ==
    metric = "ok" =>
        \E P \in SUBSET PendingSets : \E f \in Perms(Returned \cup P) :
            RealTime(f) /\ Replay(f, 1, mhist[1])

\* C10: every step of Set and Val that reads val is taken with the read or the
\* write lock held, and every step that writes it with the write lock held.
C10_AccessUnderLock ==
    [][\A t \in Threads :
          /\ (mpc[t] \in {"cmp", "read"} /\ mpc'[t] # mpc[t]) => (mwriter = t \/ t \in mreaders)
          /\ (mpc[t] = "store" /\ mpc'[t] # mpc[t]) => mwriter = t]_vars

\* the Go type that holds the values of a metric type
NativeKind(t) ==
    CASE t = Int32Type -> "int32"
      [] t = Uint32Type -> "uint32"
      [] t = Int64Type -> "int64"
      [] t = Uint64Type -> "uint64"
      [] t = FloatType -> "float32"
      [] t = DoubleType -> "float64"
      [] OTHER -> "string"

\* an integer value converted to the Go type of a metric type
Narrowed(t, v) ==
    GoVal(NativeKind(t),
          CASE t = Int32Type -> Int32Of(v.n)
            [] t = Uint32Type -> Uint32Of(v.n)
            [] t = Int64Type -> Int64Of(v.n)
            [] t = Uint64Type -> Uint64Of(v.n)
            [] OTHER -> v.n)

\* the calls made one after the other: each returned before the next was made
Sequential == \A i \in 1..Len(ops) : \A k \in 1..(i - 1) : k \in ops[i].after

\* C11: a Set that returned nil followed by a Val, with no other call between
\* or beside them, makes Val return the value set, in the Go type of the
\* metric's type.
C11_SetThenValNarrowed ==
    (Len(ops) >= 2 /\ Sequential) =>
        LET j == Len(ops) IN
        (ops[j - 1].kind = "set" /\ ops[j - 1].st = "ok" /\ ops[j].kind = "val" /\ ops[j].st = "ok")
            => ops[j].ret = Narrowed(mtype, ops[j - 1].arg)

\* C12: the value a metric holds, and every value it has held, is compatible
\* with its type; there is no metric, and no value, after NewPCPMetric refused
\* an incompatible initial value.
C12_StoredValueCompatible ==
    /\ metric = "ok" => (IsCompatible(mtype, mval) /\ \A i \in 1..Len(mhist) : IsCompatible(mtype, mhist[i]))
    /\ metric # "ok" => (mhist = <<>> /\ metric \in {"none", ErrNewIncompatible})

\* C12 witness: a metric that holds the value of a Set, after another Set failed
C12_Witness ==
    /\ metric = "ok" /\ Len(mhist) >= 2 /\ mval = mhist[Len(mhist)]
    /\ \E i \in 1..Len(ops) : ops[i].kind = "set" /\ ops[i].st = "err"
    /\ \A t \in Threads : mpc[t] = "idle"

\* the step is a call of Set that returns at once
SetReturnsAtOnce == Len(ops') = Len(ops) + 1 /\ ops'[Len(ops')].kind = "set" /\ ops'[Len(ops')].st # "pending"

\* C13: a Set of a value that is not compatible with the metric's type returns
\* an error, and the step that returns it leaves the stored value as it was.
C13_FailedSetKeepsValue ==
    [][/\ (Len(ops') = Len(ops) + 1 /\ ops'[Len(ops')].kind = "set"
              /\ ~IsCompatible(mtype, ops'[Len(ops')].arg))
          => (SetReturnsAtOnce /\ ops'[Len(ops')].st = "err")
       /\ (SetReturnsAtOnce /\ ops'[Len(ops')].st = "err")
          => (mval' = mval /\ mhist' = mhist /\ mtype' = mtype /\ metric' = metric)]_vars

\* C13 witness: a Val that returned the value held before a Set that failed
C13_Witness ==
    /\ Sequential
    /\ \E i \in 1..Len(ops) : \E j \in (i + 1)..Len(ops) :
          /\ ops[i].kind = "set" /\ ops[i].st = "err"
          /\ ops[j].kind = "val" /\ ops[j].st = "ok" /\ ops[j].ret = mhist[Len(mhist)]
          /\ \A k \in (i + 1)..(j - 1) : ops[k].kind = "val"

------------------------------------------------------------------------------
(* Properties of IsCompatible and FixedVal *)

\* a call of IsCompatible that returned
Checked == fcall.fn = "IsCompatible" /\ fres # Nil

Between(lo, a, hi) == WLe(lo, a) /\ WLe(a, hi)

\* C14: a generic signed integer is accepted for Int32Type exactly when it is
\* in -2^31 .. 2^31 - 1, and for Int64Type exactly when it is in
\* -2^63 .. 2^63 - 1.
C14_SignedRange ==
    (Checked /\ fcall.v.k = "int") =>
        /\ fcall.t = Int32Type => (fres[1] <=> Between(MinInt32, fcall.v.n, MaxInt32))
        /\ fcall.t = Int64Type => (fres[1] <=> Between(MinInt64, fcall.v.n, MaxInt64))

\* C15: a generic signed or unsigned integer is accepted for Uint32Type
\* exactly when it is in 0 .. 2^32 - 1, and for Uint64Type exactly when it is
\* in 0 .. 2^64 - 1.
C15_UnsignedRange ==
    (Checked /\ fcall.v.k \in {"int", "uint"}) =>
        /\ fcall.t = Uint32Type => (fres[1] <=> Between(W(0), fcall.v.n, MaxUint32))
        /\ fcall.t = Uint64Type => (fres[1] <=> Between(W(0), fcall.v.n, MaxUint64))

\* C16: a string is accepted for StringType and for no other type, and
\* StringType accepts nothing but a string.
C16_StringOnlyForStringType ==
    Checked =>
        /\ fcall.v.k = "string" => (fres[1] <=> fcall.t = StringType)
        /\ (fcall.t = StringType /\ fcall.v.k # "string") => ~fres[1]

\* C17: a float32 value is accepted for FloatType and rejected for DoubleType;
\* a float64 value within the float32 range is accepted for both.
C17_FloatsAccepted ==
    Checked =>
        /\ fcall.v.k = "float32" =>
              /\ fcall.t = FloatType => fres[1]
              /\ fcall.t = DoubleType => ~fres[1]
        /\ (fcall.v.k = "float64" /\ fcall.v.n \in Float64Bits) =>
              (fcall.t \in {FloatType, DoubleType} => fres[1])

\* a well-formed wide integer
IsWide(a) == \A i \in 2..4 : a[i] \in 0..(Limb - 1)

\* equal modulo 2^32, modulo 2^64
SameLow32(a, b) == a[3] = b[3] /\ a[4] = b[4]
SameLow64(a, b) == SameLow32(a, b) /\ a[2] = b[2] /\ (a[1] - b[1]) % Limb = 0

\* the value FixedVal returned is of the Go type k and is the number in
\* lo .. hi that equals the word modulo 2^32 (low) or 2^64
Decoded(r, k, low, lo, hi) ==
    /\ r.err = NoErr
    /\ r.val # Nil
    /\ r.val[1].k = k
    /\ IsWide(r.val[1].n)
    /\ IF low THEN SameLow32(r.val[1].n, fcall.v.n) ELSE SameLow64(r.val[1].n, fcall.v.n)
    /\ Between(lo, r.val[1].n, hi)

\* C18: FixedVal(w, t) is, with a nil error, the low 32 bits of w as a signed
\* integer for Int32Type, w mod 2^32 for Uint32Type, w as a signed 64-bit
\* integer for Int64Type and w for Uint64Type; for a type tag that is not one
\* of the six numeric types it is an error and no value.
C18_FixedValNarrows ==
    (fcall.fn = "FixedVal" /\ fres # Nil) =>
        /\ fcall.t = Int32Type => Decoded(fres[1], "int32", TRUE, MinInt32, MaxInt32)
        /\ fcall.t = Uint32Type => Decoded(fres[1], "uint32", TRUE, W(0), MaxUint32)
        /\ fcall.t = Int64Type => Decoded(fres[1], "int64", FALSE, MinInt64, MaxInt64)
        /\ fcall.t = Uint64Type =>
              (Decoded(fres[1], "uint64", FALSE, W(0), MaxUint64) /\ fres[1].val[1].n = fcall.v.n)
        /\ fcall.t \notin Int32Type..DoubleType => (fres[1].err # NoErr /\ fres[1].val = Nil)

\* C18 witness: a word above 2^32 with bit 31 set, decoded as a negative int32
C18_Witness ==
    /\ fcall.fn = "FixedVal" /\ fres # Nil /\ fcall.t = Int32Type
    /\ WLt(MaxUint32, fcall.v.n)
    /\ fres[1].val # Nil /\ WLt(fres[1].val[1].n, W(0))

------------------------------------------------------------------------------
(* Properties of MemoryMappedWriter *)

\* C19: when NewMemoryMappedWriter has returned a writer, and until something
\* is written through it, the file at the location holds exactly size zero
\* bytes, whether or not a file was there before.
C19_NewFileZeroed ==
    (wret.call = "new" /\ wret.err = NoErr /\ ~writer.written)
        => (wsize >= 0 /\ file = Some(Zeros(wsize)))

\* C19 witness: a writer of the largest size made where a file was found and removed
C19_Witness ==
    /\ wret.call = "new" /\ wret.err = NoErr /\ wpc = "ready"
    /\ writer.removed /\ wsize = MaxSize /\ file # Nil

\* C20: after an Unmap(true) that returned nil there is no file at the
\* location; after an Unmap(false) that returned nil the file is there and
\* holds the bytes last written through the writer.
C20_UnmapRemovesOrKeeps ==
    (wret.call = "unmap" /\ wret.err = NoErr) =>
        IF wret.removefile THEN file = Nil ELSE file = Some(writer.buffer)

\* C20 witness: Unmap(false) returned nil on a writer that was written to
C20_Witness ==
    /\ wret.call = "unmap" /\ wret.err = NoErr /\ ~wret.removefile /\ wpc = "ready"
    /\ writer.written /\ writer.buffer # Zeros(wsize) /\ file # Nil

\* C25: whenever Unmap has returned, with or without an error, the mapping
\* handle and the file handle are closed, and if removefile was true the
\* removal of the file has been attempted.
C25_UnmapReleasesAll ==
    (wret.call = "unmap" /\ wpc = "ready") =>
        /\ ~writer.h
        /\ ~writer.f
        /\ wret.removefile => wret.err \in {NoErr, "Remove"}

\* the requests to /increment that have completed: a handler completes when
\* its Set returns
Completed == Cardinality({i \in 1..Len(ops) : ops[i].kind = "set" /\ ops[i].st = "ok"})

\* no handler is running
Quiet == \A t \in Threads : mpc[t] = "panic" \/ (mpc[t] = "idle" /\ ~InHandler(t))

\* C26: in the HTTP counter, when no handler is running and n requests to
\* /increment have completed, in whatever interleaving their handlers ran,
\* the value of the metric is its initial value plus n.
C26_NoIncrementLost ==
    (metric = "ok" /\ Quiet) => mval.n = WAdd(mhist[1].n, W(Completed))

IntegerTypes == {Int32Type, Uint32Type, Int64Type, Uint64Type}

\* C24: for an integer metric type t and a value v that t.IsCompatible accepts,
\* t.WriteVal makes one write, of the width of t, and FixedVal of the payload
\* word it leaves, decoded as t, is a value equal to v.
C24_WriteThenFixedVal ==
    (fcall.fn = "WriteVal" /\ fres # Nil /\ fcall.t \in IntegerTypes
        /\ IsCompatible(fcall.t, fcall.v)) =>
        /\ Len(fres[1].prims) = 1
        /\ fres[1].prims[1].width = (IF fcall.t \in {Int32Type, Uint32Type} THEN 4 ELSE 8)
        /\ LET r == FixedVal(WordOf(fres[1].payload), fcall.t) IN
           r.err = NoErr /\ r.val # Nil /\ r.val[1].n = fcall.v.n

------------------------------------------------------------------------------
(* Properties of the unit constants *)

\* the family of a unit: the bit of its dimension exponent, the lowest bit of
\* its scale field and its constants in the order of their declaration
Family(k) ==
    CASE k = "SpaceUnit" -> [dim |-> 28, scale |-> 16, units |-> SpaceUnits]
      [] k = "TimeUnit" -> [dim |-> 24, scale |-> 12, units |-> TimeUnits]
      [] OTHER -> [dim |-> 20, scale |-> 8, units |-> CountUnits]

\* the position of a unit in its family, from 0
Ordinal(u) == (CHOOSE i \in DOMAIN Family(u.k).units : Family(u.k).units[i] = u) - 1

\* a 32-bit pattern as a number, and the 4-bit field of it that starts at bit lo
Bits32(a) == a[3] * Limb + a[4]
Field(x, lo) == (x \div 2^lo) % 16

\* the dimension and scale fields of the PMAPI word
Fields == {28, 24, 20, 16, 12, 8}

====
